---- MODULE Spec2Model ----
(***************************************************************************)
(* Model of backend/main.py: a FastAPI note-taking service with two        *)
(* in-memory dictionaries (users_db, notes_db), bcrypt password hashes     *)
(* and HS256 bearer tokens.                                                *)
(*                                                                         *)
(* Python objects have identity: notes_db[u] is a reference to a list      *)
(* object, and the list holds references to note dicts.  The handlers      *)
(* alias these objects (notes_db.get returns the stored list itself), so   *)
(* the model keeps a heap of list objects (lists) and of note dicts        *)
(* (objs).  Every handler is cut into steps at its reads and writes of     *)
(* shared objects; a step is a function from world to world.  Spec         *)
(* interleaves the steps of the requests in flight (the sync endpoints run *)
(* on FastAPI's thread pool); SeqSpec runs each request from arrival to    *)
(* response as one action built from the same steps.                       *)
(***************************************************************************)
EXTENDS Integers, Sequences, FiniteSets, TLC

VARIABLES users_db, notes_db, lists, objs, thr, now, tokens

vars == <<users_db, notes_db, lists, objs, thr, now, tokens>>

\* ------------------------------------------------------------------ bounds
\* Worker threads serving requests at the same time.
NThreads == 2
\* Note dicts alive at the same time, per scenario (see the profiles).
MaxObjs == 2
AuthMaxObjs == 1
ConcMaxObjs == 2
\* create_note is not started once the caller holds an id this high, and
\* clients ask for the ids up to it, per scenario.
MaxNoteId == 3
AuthMaxNoteId == 2
ConcMaxNoteId == 2
\* Tokens issued by the login endpoints, per scenario.
MaxTokens == 2
ConcMaxTokens == 1

Threads == 1..NThreads

\* --------------------------------------------------------------- constants
ACCESS_TOKEN_EXPIRE_MINUTES == 60
\* create_access_token without expires_delta: timedelta(minutes=15)
DefaultExpireMinutes == 15
MinUsernameLen == 3
MaxUsernameLen == 50
MinPasswordLen == 6

\* The clock counts whole seconds (python-jose encodes exp as timegm(...)).
TTL == ACCESS_TOKEN_EXPIRE_MINUTES * 60


\* ----------------------------------------------------------------- strings
\* A str is a sequence of one-character strings.
Whitespace == {" ", "\t"}

LowerChar(c) ==
  CASE c = "A" -> "a"
    [] c = "B" -> "b"
    [] c = "M" -> "m"
    [] c = "O" -> "o"
    [] c = "Y" -> "y"
    [] OTHER -> c

\* str.lower()
Lower(s) == [i \in 1..Len(s) |-> LowerChar(s[i])]

RECURSIVE LStrip(_)
LStrip(s) == IF s # <<>> /\ Head(s) \in Whitespace THEN LStrip(Tail(s)) ELSE s

RECURSIVE RStrip(_)
RStrip(s) ==
  IF s # <<>> /\ s[Len(s)] \in Whitespace
  THEN RStrip(SubSeq(s, 1, Len(s) - 1))
  ELSE s

\* Only the leading whitespace removed.
StripLeft(s) == LStrip(s)

\* str.strip()
Strip(s) == RStrip(LStrip(s))

\* The username trimmed but its case kept.
NormalizeCaseKept(s) == Strip(s)

\* username = user.username.strip().lower()
Normalize(s) == Lower(Strip(s))

Long51 == [i \in 1..(MaxUsernameLen + 1) |-> "z"]

\* Usernames as clients type them.
RawUsernames ==
  { <<"b", "o", "b">>,
    <<" ", "B", "o", "b", "\t">>,
    <<"a", "m", "y">>,
    <<"A", "M", "Y", " ">>,
    <<" ", "a", "b", " ">>,
    Long51 }

Passwords ==
  { <<"s", "e", "c", "r", "e", "t">>,
    <<"h", "u", "n", "t", "e", "r", "2">>,
    <<"a", "b", "c", "d", "e">> }

\* (title, content) bodies of NoteCreate / NoteUpdate as clients type them.
RawTexts ==
  { << <<" ", "a", " ">>, <<"x", " ">> >>,
    << <<"b">>, <<"y">> >>,
    << <<" ", "\t">>, <<"y">> >>,
    << <<"b">>, <<>> >> }

NoName == <<>>

\* ------------------------------------------------------------- validators
\* UserCreate.username_must_be_valid: the stripped value, or an error.
username_must_be_valid(v) ==
  LET s == Strip(v) IN
  IF Len(s) < MinUsernameLen \/ Len(s) > MaxUsernameLen
  THEN [ok |-> FALSE, v |-> s]
  ELSE [ok |-> TRUE, v |-> s]

\* UserCreate.password_must_be_strong
password_must_be_strong(v) == [ok |-> Len(v) >= MinPasswordLen, v |-> v]

\* The validator returning the value as it was sent.
text_not_empty_untrimmed(v) == [ok |-> Strip(v) # <<>>, v |-> v]

\* NoteCreate / NoteUpdate: title_not_empty and content_not_empty
text_not_empty(v) == [ok |-> Strip(v) # <<>>, v |-> Strip(v)]

\* -------------------------------------------------------------------- heap
\* The normalized usernames that pass signup's validation.
ValidNames ==
  { Normalize(r) : r \in { x \in RawUsernames : username_must_be_valid(x).ok } }

\* List objects: one per notes_db key, one local per thread, one being built.
ListIds == 1..(Cardinality(ValidNames) + NThreads + 1)
NoList == 0
\* Note dicts: as many as the largest scenario admits, and one per thread.
ObjIds == 1..(MaxObjs + AuthMaxObjs + ConcMaxObjs + NThreads)

FreeObj ==
  [id |-> 0, title |-> <<>>, content |-> <<>>, created_at |-> 0, updated_at |-> 0]

NoHash == [pw |-> <<>>, salt |-> 0]
NoUser == [username |-> NoName, hashed_password |-> NoHash]
NoToken == [sub |-> NoName, exp |-> 0, sig |-> "none"]
NoResp ==
  [status |-> 0, detail |-> "", notes |-> <<>>, token |-> NoToken,
   username |-> NoName]

IdleThread ==
  [pc |-> "idle", op |-> "none", user |-> NoName, raw |-> <<>>, pw |-> <<>>,
   hash |-> NoHash, tok |-> NoToken, nid |-> 0, title |-> <<>>,
   content |-> <<>>, lst |-> NoList, new_id |-> 0, ts |-> 0, idx |-> 0,
   cnt |-> 0, resp |-> NoResp, ov |-> {}, minutes |-> 0, hashes |-> 0,
   removed |-> FALSE]

Range(s) == { s[i] : i \in 1..Len(s) }

SetMax(S) == CHOOSE x \in S : \A y \in S : y <= x
SetMin(S) == CHOOSE x \in S : \A y \in S : x <= y

\* The world: every variable of the model, as one record.
World ==
  [users_db |-> users_db, notes_db |-> notes_db, lists |-> lists,
   objs |-> objs, thr |-> thr, now |-> now, tokens |-> tokens]

RECURSIVE SetToSeq(_)
\* The elements of a finite set, in a fixed order.
SetToSeq(S) ==
  IF S = {} THEN <<>>
  ELSE LET x == CHOOSE y \in S : TRUE IN <<x>> \o SetToSeq(S \ {x})

RECURSIVE Dedup(_, _)
\* s without NoList and without repeats, first occurrences kept; seen: so far.
Dedup(s, seen) ==
  IF s = <<>> THEN <<>>
  ELSE IF Head(s) = NoList \/ Head(s) \in seen THEN Dedup(Tail(s), seen)
  ELSE <<Head(s)>> \o Dedup(Tail(s), seen \cup {Head(s)})

RECURSIVE Flatten(_)
Flatten(ss) == IF ss = <<>> THEN <<>> ELSE Head(ss) \o Flatten(Tail(ss))

IndexOf(s, x) == CHOOSE i \in 1..Len(s) : s[i] = x

NameOrder == SetToSeq(ValidNames)

\* The list objects something refers to: notes_db's values, then the
\* threads' user_notes.
LiveListSeq(w) ==
  Dedup([i \in 1..Len(NameOrder) |->
           IF NameOrder[i] \in DOMAIN w.notes_db
           THEN w.notes_db[NameOrder[i]] ELSE NoList]
          \o [t \in Threads |-> w.thr[t].lst], {})

LiveLists(w) == Range(LiveListSeq(w))

LiveObjs(w) == UNION { Range(w.lists[l]) : l \in LiveLists(w) }

\* Reference counting: a list or dict nobody refers to is freed.  Object
\* identities carry no meaning, so the live objects are renumbered in the
\* order they are reached from notes_db and the threads.
Collect(w) ==
  LET ll == LiveListSeq(w)
      lo == Dedup(Flatten([i \in 1..Len(ll) |-> w.lists[ll[i]]]), {})
      ren(l) == IF l = NoList THEN NoList ELSE IndexOf(ll, l)
  IN [w EXCEPT
        !.lists = [l \in ListIds |->
                     IF l <= Len(ll)
                     THEN [i \in 1..Len(w.lists[ll[l]]) |->
                             IndexOf(lo, w.lists[ll[l]][i])]
                     ELSE <<>>],
        !.objs = [o \in ObjIds |->
                    IF o <= Len(lo) THEN w.objs[lo[o]] ELSE FreeObj],
        !.notes_db = [u \in DOMAIN w.notes_db |-> ren(w.notes_db[u])],
        !.thr = [t \in Threads |->
                   [w.thr[t] EXCEPT !.lst = ren(w.thr[t].lst)]]]

NewList(w) == SetMin(ListIds \ LiveLists(w))
NewObj(w) == SetMin(ObjIds \ LiveObjs(w))

\* The note dicts of list l, as values (what serialising the list gives).
NotesOf(w, l) == [i \in 1..Len(w.lists[l]) |-> w.objs[w.lists[l][i]]]

\* notes_db.get(current_user, []) as values; <<>> when the key is missing.
UserNotes(w, u) ==
  IF u \in DOMAIN w.notes_db THEN NotesOf(w, w.notes_db[u]) ELSE <<>>

Ids(ns) == { ns[i].id : i \in 1..Len(ns) }

\* ------------------------------------------------------------ primitives
\* pwd_context.hash: salted, so two hashes of one password differ.
get_password_hash(password, salt) == [pw |-> password, salt |-> salt]

\* pwd_context.verify
verify_password(plain_password, hashed_password) ==
  hashed_password # NoHash /\ hashed_password.pw = plain_password

get_user(w, username) ==
  IF username \in DOMAIN w.users_db THEN w.users_db[username] ELSE NoUser

authenticate_user(w, username, password) ==
  LET user == get_user(w, username) IN
  IF user = NoUser THEN NoUser
  ELSE IF ~verify_password(password, user.hashed_password) THEN NoUser
  ELSE user

\* create_access_token(data={"sub": sub}, expires_delta): minutes = 0 stands
\* for expires_delta=None.
create_access_token(sub, minutes, clock) ==
  [sub |-> sub,
   exp |-> IF minutes # 0 THEN clock + minutes * 60
           ELSE clock + DefaultExpireMinutes * 60,
   sig |-> "ok"]

\* jose.jwt.decode's exp check (_validate_exp): expired when exp < now.
JwtExpired(exp, clock) == exp < clock

\* jwt.decode(token, SECRET_KEY, algorithms=[ALGORITHM]): the payload, or
\* JWTError for a bad signature or an expired token.
JwtDecode(token, clock) ==
  IF token.sig # "ok" THEN [ok |-> FALSE, sub |-> NoName]
  ELSE IF JwtExpired(token.exp, clock) THEN [ok |-> FALSE, sub |-> NoName]
  ELSE [ok |-> TRUE, sub |-> token.sub]

\* get_current_user: the username, or NoName for credentials_exception.
get_current_user(w, token) ==
  LET payload == JwtDecode(token, w.now) IN
  IF ~payload.ok THEN NoName
  ELSE IF payload.sub = NoName THEN NoName
  ELSE IF get_user(w, payload.sub) = NoUser THEN NoName
  ELSE payload.sub

\* ------------------------------------------------------------- responses
Resp(status, detail) == [NoResp EXCEPT !.status = status, !.detail = detail]

RespNotes(ns) == [NoResp EXCEPT !.status = 200, !.notes = ns]

\* A request ends: its locals die, its response stays to be read.
Done(th, resp) ==
  [th EXCEPT !.pc = "done", !.hash = NoHash, !.lst = NoList, !.new_id = 0,
             !.ts = 0, !.idx = 0, !.cnt = 0, !.resp = resp]

SetThr(w, t, th) == [w EXCEPT !.thr[t] = th]

\* ---------------------------------------------------------------- requests
Request(op, raw, pw, tok, nid, title, content) ==
  [op |-> op, raw |-> raw, pw |-> pw, tok |-> tok, nid |-> nid,
   title |-> title, content |-> content]

\* A thread that has taken a request, before any of its code has run.
Arrived(req) ==
  [IdleThread EXCEPT !.op = req.op, !.raw = req.raw, !.pw = req.pw,
                     !.tok = req.tok, !.nid = req.nid, !.title = req.title,
                     !.content = req.content]

Unauthorized == Resp(401, "Could not validate credentials")
NotFound == Resp(404, "Note not found")
Unprocessable == Resp(422, "validation error")

\* ------------------------------------------------------------------ signup
\* UserCreate's validators, then signup down to the hashing: the username
\* is normalized and looked up, the password hashed.
SignupBegin(w, t, req) ==
  LET th == Arrived(req)
      uv == username_must_be_valid(req.raw)
      pv == password_must_be_strong(req.pw)
      username == Normalize(uv.v)
  IN IF ~uv.ok \/ ~pv.ok THEN SetThr(w, t, Done(th, Unprocessable))
     ELSE IF username \in DOMAIN w.users_db
     THEN SetThr(w, t, Done([th EXCEPT !.user = username],
                            Resp(400, "Username already registered")))
     ELSE SetThr(w, t, [th EXCEPT !.pc = "s_write_user", !.user = username,
                                  !.hash = get_password_hash(pv.v, t)])

\* users_db[username] = {"username": ..., "hashed_password": ...}
SignupWriteUser(w, t) ==
  LET th == w.thr[t]
      rec == [username |-> th.user, hashed_password |-> th.hash]
  IN [w EXCEPT
        !.users_db = [u \in DOMAIN w.users_db \cup {th.user} |->
                        IF u = th.user THEN rec ELSE w.users_db[u]],
        !.thr[t] = [th EXCEPT !.pc = "s_init_notes"]]

\* notes_db[username] = []; return {"username": username}
SignupInitNotes(w, t) ==
  LET th == w.thr[t]
      l == NewList(w)
  IN [w EXCEPT
        !.lists[l] = <<>>,
        !.notes_db = [u \in DOMAIN w.notes_db \cup {th.user} |->
                        IF u = th.user THEN l ELSE w.notes_db[u]],
        !.thr[t] = Done(th, [NoResp EXCEPT !.status = 200,
                                           !.username = th.user])]

\* The hash verifications authenticate_user performs: none when get_user
\* finds nobody (it returns at once), one otherwise.
VerifyCalls(w, username) == IF get_user(w, username) = NoUser THEN 0 ELSE 1

\* ------------------------------------------------------------------- login
\* login (op "token", the OAuth2 form: no validators) and login_json (op
\* "login", a UserCreate body: both validators) down to authenticate_user.
LoginBegin(w, t, req) ==
  LET th == Arrived(req)
      uv == username_must_be_valid(req.raw)
      pv == password_must_be_strong(req.pw)
      invalid == req.op = "login" /\ (~uv.ok \/ ~pv.ok)
      username == IF req.op = "login" THEN Normalize(uv.v)
                  ELSE Normalize(req.raw)
      user == authenticate_user(w, username, req.pw)
      ran == [th EXCEPT !.hashes = VerifyCalls(w, username)]
  IN IF invalid THEN SetThr(w, t, Done(th, Unprocessable))
     ELSE IF user = NoUser
     THEN SetThr(w, t, Done(ran, Resp(401, "Incorrect username or password")))
     ELSE SetThr(w, t, [ran EXCEPT !.pc = "l_issue", !.user = user.username])

\* create_access_token(data={"sub": user["username"]}, expires_delta=60 min)
LoginIssue(w, t) ==
  LET th == w.thr[t]
      access_token ==
        create_access_token(th.user, ACCESS_TOKEN_EXPIRE_MINUTES, w.now)
  IN [w EXCEPT
        !.tokens = w.tokens \cup {access_token},
        !.thr[t] = Done(th, [NoResp EXCEPT !.status = 200,
                                           !.token = access_token])]

\* ------------------------------------------------------ protected endpoints
NoteOps == {"list", "create", "get", "update", "delete"}

FirstPc(op) ==
  CASE op = "list" -> "g_all"
    [] op = "create" -> "c_read"
    [] op = "get" -> "g_one"
    [] op = "update" -> "u_find"
    [] op = "delete" -> "d_read"

\* One key for every caller instead of the caller's own.
NotesKeyShared(th) == <<"b", "o", "b">>

\* The key under which a request reads and writes notes_db.
NotesKey(th) == th.user

\* Depends(get_current_user), then the body's validators, then the handler
\* is handed to a worker; read_users_me answers at once.
ProtectedBegin(w, t, req) ==
  LET th == Arrived(req)
      current_user == get_current_user(w, req.tok)
      tv == text_not_empty(req.title)
      cv == text_not_empty(req.content)
      au == [th EXCEPT !.user = current_user]
  IN IF current_user = NoName THEN SetThr(w, t, Done(th, Unauthorized))
     ELSE IF req.op = "me"
     THEN SetThr(w, t, Done(au, [NoResp EXCEPT !.status = 200,
                                               !.username = current_user]))
     ELSE IF req.op \in {"create", "update"} /\ (~tv.ok \/ ~cv.ok)
     THEN SetThr(w, t, Done(au, Unprocessable))
     ELSE IF req.op \in {"create", "update"}
     THEN SetThr(w, t, [au EXCEPT !.pc = FirstPc(req.op), !.title = tv.v,
                                  !.content = cv.v])
     ELSE SetThr(w, t, [au EXCEPT !.pc = FirstPc(req.op)])

\* user_notes = notes_db.get(current_user, []): the stored list itself, or
\* a new empty list when the key is missing.
GetUserNotes(w, t) ==
  LET key == NotesKey(w.thr[t]) IN
  IF key \in DOMAIN w.notes_db
  THEN [w EXCEPT !.thr[t].lst = w.notes_db[key]]
  ELSE LET l == NewList(w) IN [w EXCEPT !.lists[l] = <<>>, !.thr[t].lst = l]

\* notes_db[current_user] = l
StoreUserNotes(w, t, l) ==
  LET key == NotesKey(w.thr[t]) IN
  [w EXCEPT !.notes_db = [u \in DOMAIN w.notes_db \cup {key} |->
                            IF u = key THEN l ELSE w.notes_db[u]]]

\* get_all_notes: return notes_db.get(current_user, [])
GetAllNotes(w, t) ==
  LET w1 == GetUserNotes(w, t)
      th == w1.thr[t]
  IN SetThr(w1, t, Done(th, RespNotes(NotesOf(w1, th.lst))))

\* The first position of user_notes holding a note with this id, or 0.
FindNote(ns, note_id) ==
  LET hits == { i \in 1..Len(ns) : ns[i].id = note_id } IN
  IF hits = {} THEN 0 ELSE SetMin(hits)

\* get_note answering 403 when the id is held by somebody else.
GetNoteDisclosing(w, t) ==
  LET w1 == GetUserNotes(w, t)
      th == w1.thr[t]
      ns == NotesOf(w1, th.lst)
      i == FindNote(ns, th.nid)
      elsewhere == \E u \in DOMAIN w.notes_db : th.nid \in Ids(UserNotes(w, u))
  IN IF i = 0 /\ elsewhere
     THEN SetThr(w1, t, Done(th, Resp(403, "Not enough permissions")))
     ELSE IF i = 0 THEN SetThr(w1, t, Done(th, NotFound))
     ELSE SetThr(w1, t, Done(th, RespNotes(<<ns[i]>>)))

\* get_note
GetNote(w, t) ==
  LET w1 == GetUserNotes(w, t)
      th == w1.thr[t]
      ns == NotesOf(w1, th.lst)
      i == FindNote(ns, th.nid)
  IN IF i = 0 THEN SetThr(w1, t, Done(th, NotFound))
     ELSE SetThr(w1, t, Done(th, RespNotes(<<ns[i]>>)))

\* ------------------------------------------------------------- create_note
\* user_notes = notes_db.get(current_user, [])
CreateRead(w, t) == [GetUserNotes(w, t) EXCEPT !.thr[t].pc = "c_comp"]

\* The id taken from the length of the list instead of its largest id.
NewIdByCount(ns) == Len(ns) + 1

\* new_id = max([n["id"] for n in user_notes], default=0) + 1
NewId(ns) == SetMax(Ids(ns) \cup {0}) + 1

\* new_id and now = datetime.now().isoformat()
CreateCompute(w, t) ==
  LET th == w.thr[t] IN
  [w EXCEPT !.thr[t] = [th EXCEPT !.pc = "c_append",
                                  !.new_id = NewId(NotesOf(w, th.lst)),
                                  !.ts = w.now]]

\* new_note = {...}; user_notes.append(new_note)
CreateAppend(w, t) ==
  LET th == w.thr[t]
      o == NewObj(w)
      new_note == [id |-> th.new_id, title |-> th.title,
                   content |-> th.content, created_at |-> th.ts,
                   updated_at |-> th.ts]
  IN [w EXCEPT !.objs[o] = new_note,
               !.lists[th.lst] = Append(w.lists[th.lst], o),
               !.thr[t] = [th EXCEPT !.pc = "c_store",
                                     !.idx = Len(w.lists[th.lst]) + 1]]

\* notes_db[current_user] = user_notes; return new_note
CreateStore(w, t) ==
  LET th == w.thr[t]
      w1 == StoreUserNotes(w, t, th.lst)
  IN SetThr(w1, t, Done(th, RespNotes(<<w.objs[w.lists[th.lst][th.idx]]>>)))

\* ------------------------------------------------------------- update_note
\* user_notes = notes_db.get(current_user, []) and the loop's search
UpdateFind(w, t) ==
  LET w1 == GetUserNotes(w, t)
      th == w1.thr[t]
      i == FindNote(NotesOf(w1, th.lst), th.nid)
  IN IF i = 0 THEN SetThr(w1, t, Done(th, NotFound))
     ELSE SetThr(w1, t, [th EXCEPT !.pc = "u_mut", !.idx = i])

\* The timestamp written to created_at as well.
UpdateFieldsStamped(note, title, content, clock) ==
  [note EXCEPT !.title = title, !.content = content, !.created_at = clock,
               !.updated_at = clock]

\* user_notes[i]["title"], ["content"], ["updated_at"] = ...
UpdateFields(note, title, content, clock) ==
  [note EXCEPT !.title = title, !.content = content, !.updated_at = clock]

\* The updated note taken out of the list and appended at its end.
UpdateMutateMoved(w, t) ==
  LET th == w.thr[t]
      l == w.lists[th.lst]
      o == l[th.idx]
      rest == [i \in 1..(Len(l) - 1) |-> IF i < th.idx THEN l[i] ELSE l[i + 1]]
  IN [w EXCEPT
        !.objs[o] = UpdateFields(w.objs[o], th.title, th.content, w.now),
        !.lists[th.lst] = Append(rest, o),
        !.thr[t] = [th EXCEPT !.pc = "u_store", !.idx = Len(l)]]

UpdateMutate(w, t) ==
  LET th == w.thr[t]
      o == w.lists[th.lst][th.idx]
  IN [w EXCEPT
        !.objs[o] = UpdateFields(w.objs[o], th.title, th.content, w.now),
        !.thr[t] = [th EXCEPT !.pc = "u_store"]]

\* notes_db[current_user] = user_notes; return user_notes[i]
UpdateStore(w, t) ==
  LET th == w.thr[t]
      w1 == StoreUserNotes(w, t, th.lst)
  IN SetThr(w1, t, Done(th, RespNotes(<<w.objs[w.lists[th.lst][th.idx]]>>)))

\* ------------------------------------------------------------- delete_note
\* user_notes = notes_db.get(current_user, []); original_count = len(...)
DeleteRead(w, t) ==
  LET w1 == GetUserNotes(w, t)
      th == w1.thr[t]
  IN SetThr(w1, t, [th EXCEPT !.pc = "d_filter",
                              !.cnt = Len(w1.lists[th.lst])])

\* The filter comparing the position in the list instead of the note's id.
KeepOthersByPosition(ns, note_id) == { i \in 1..Len(ns) : i # note_id }

\* [n for n in user_notes if n["id"] != note_id], as positions kept
KeepOthers(ns, note_id) == { i \in 1..Len(ns) : ns[i].id # note_id }

RECURSIVE Pick(_, _, _)
\* The subsequence of s at the positions in keep, from position i on.
Pick(s, keep, i) ==
  IF i > Len(s) THEN <<>>
  ELSE IF i \in keep THEN <<s[i]>> \o Pick(s, keep, i + 1)
  ELSE Pick(s, keep, i + 1)

\* notes_db[current_user] = [n for n in user_notes if n["id"] != note_id]
\* (th.removed records, for the history, whether the filter dropped a note)
DeleteFilter(w, t) ==
  LET th == w.thr[t]
      l == NewList(w)
      kept == Pick(w.lists[th.lst],
                   KeepOthers(NotesOf(w, th.lst), th.nid), 1)
      w1 == StoreUserNotes([w EXCEPT !.lists[l] = kept], t, l)
  IN SetThr(w1, t, [th EXCEPT !.pc = "d_check", !.lst = NoList,
                              !.removed = Len(kept) < Len(w.lists[th.lst])])

\* if len(notes_db[current_user]) == original_count: raise 404
DeleteCheck(w, t) ==
  LET th == w.thr[t]
      count == Len(w.lists[w.notes_db[NotesKey(th)]])
  IN IF count = th.cnt THEN SetThr(w, t, Done(th, NotFound))
     ELSE SetThr(w, t, Done(th, Resp(200, "Note deleted successfully")))

\* ------------------------------------------------------------------- steps
\* The next step of thread t's handler.
StepFn(w, t) ==
  LET pc == w.thr[t].pc IN
  CASE pc = "s_write_user" -> SignupWriteUser(w, t)
    [] pc = "s_init_notes" -> SignupInitNotes(w, t)
    [] pc = "l_issue" -> LoginIssue(w, t)
    [] pc = "g_all" -> GetAllNotes(w, t)
    [] pc = "g_one" -> GetNote(w, t)
    [] pc = "c_read" -> CreateRead(w, t)
    [] pc = "c_comp" -> CreateCompute(w, t)
    [] pc = "c_append" -> CreateAppend(w, t)
    [] pc = "c_store" -> CreateStore(w, t)
    [] pc = "u_find" -> UpdateFind(w, t)
    [] pc = "u_mut" -> UpdateMutate(w, t)
    [] pc = "u_store" -> UpdateStore(w, t)
    [] pc = "d_read" -> DeleteRead(w, t)
    [] pc = "d_filter" -> DeleteFilter(w, t)
    [] pc = "d_check" -> DeleteCheck(w, t)

BeginFn(w, t, req) ==
  CASE req.op = "signup" -> SignupBegin(w, t, req)
    [] req.op \in {"token", "login"} -> LoginBegin(w, t, req)
    [] OTHER -> ProtectedBegin(w, t, req)

Running(th) == th.pc \notin {"idle", "done"}

RECURSIVE RunToDone(_, _)
\* Thread t's handler run to its response with no other thread in between.
RunToDone(w, t) ==
  IF Running(w.thr[t])
  THEN CHOOSE r \in { RunToDone(x, t) : x \in {Collect(StepFn(w, t))} } : TRUE
  ELSE w

\* --------------------------------------------------------- what clients send
\* A scenario: the inputs clients choose from, the instants the clock
\* passes through, and the bounds.
Profile(raws, pws, texts, instants, forged, maxObjs, maxNoteId, maxTokens) ==
  [raws |-> raws, pws |-> pws, texts |-> texts, instants |-> instants,
   forged |-> forged, maxObjs |-> maxObjs, maxNoteId |-> maxNoteId,
   maxTokens |-> maxTokens, relogin |-> TRUE]

Secret == <<"s", "e", "c", "r", "e", "t">>

\* Notes: two users, every kind of note body, a clock that moves (no token
\* expires in this scenario, and nobody logs in while holding a token).
NotesProfile ==
  [Profile({ <<"b", "o", "b">>, <<"A", "M", "Y", " ">> }, {Secret}, RawTexts,
           {0, 1}, FALSE, MaxObjs, MaxNoteId, MaxTokens)
     EXCEPT !.relogin = FALSE]

\* Accounts and tokens: every spelling of the usernames, every password, and
\* the clock at a token's issue, at its exp second and one second later.
AuthProfile ==
  Profile(RawUsernames, Passwords,
          { << <<"b">>, <<"y">> >>, << <<" ", "\t">>, <<"y">> >> },
          {0, TTL, TTL + 1}, TRUE, AuthMaxObjs, AuthMaxNoteId, MaxTokens)

\* The token service on its own: one account, and the clock at, and one
\* second after, each lifetime a caller can ask for.
TokenProfile ==
  Profile({ <<"b", "o", "b">> }, {Secret}, {},
          {0, 60, 61, DefaultExpireMinutes * 60, DefaultExpireMinutes * 60 + 1,
           TTL, TTL + 1},
          FALSE, AuthMaxObjs, AuthMaxNoteId, MaxTokens)

\* expires_delta as callers of create_access_token pass it, in minutes: 0
\* for None (timedelta(0) is falsy and takes the same branch).
TtlArgs == {0, 1, ACCESS_TOKEN_EXPIRE_MINUTES}

\* Concurrency: one account, written two ways.
ConcProfile ==
  Profile({ <<"b", "o", "b">>, <<" ", "B", "o", "b", "\t">> }, {Secret},
          { << <<" ", "a", " ">>, <<"x", " ">> >> },
          {0, 1}, FALSE, ConcMaxObjs, ConcMaxNoteId, ConcMaxTokens)

SignupReqs(w, p) ==
  { Request("signup", r, pw, NoToken, 0, <<>>, <<>>) :
      r \in p.raws, pw \in p.pws }

\* POST /token (op "token") or POST /login (op "login")
LoginReqs(w, p, op) ==
  { Request(op, r, pw, NoToken, 0, <<>>, <<>>) : r \in p.raws, pw \in p.pws }

\* Payloads signed with SECRET_KEY by somebody else than the login endpoints
\* (the key defaults to the placeholder written in the source): no subject,
\* or a subject that is not registered.
Crafted(w) ==
  { [sub |-> u, exp |-> TTL, sig |-> "ok"] :
      u \in (ValidNames \ DOMAIN w.users_db) \cup {NoName} }

\* Tokens a client can present: the ones issued, and (p.forged) the same
\* with a signature that does not verify, and the crafted ones.
Presentable(w, p) ==
  w.tokens \cup
    (IF p.forged
     THEN { [k EXCEPT !.sig = "bad"] : k \in w.tokens } \cup Crafted(w)
     ELSE {})

NoteIdArgs(p) == 1..p.maxNoteId

\* GET /notes (op "list") or GET /me (op "me")
PlainReqs(w, p, op) ==
  { Request(op, <<>>, <<>>, k, 0, <<>>, <<>>) : k \in Presentable(w, p) }

\* GET /notes/{note_id} (op "get") or DELETE /notes/{note_id} (op "delete")
ByIdReqs(w, p, op) ==
  { Request(op, <<>>, <<>>, k, i, <<>>, <<>>) :
      k \in Presentable(w, p), i \in NoteIdArgs(p) }

CreateReqs(w, p) ==
  { Request("create", <<>>, <<>>, k, 0, x[1], x[2]) :
      k \in Presentable(w, p), x \in p.texts }

UpdateReqs(w, p) ==
  { Request("update", <<>>, <<>>, k, i, x[1], x[2]) :
      k \in Presentable(w, p), i \in NoteIdArgs(p), x \in p.texts }

\* The bounds of the scenario, as conditions on the requests taken.
CreatesInFlight(w) ==
  { t \in Threads : w.thr[t].pc \in {"c_read", "c_comp", "c_append"} }

LoginsInFlight(w) == { t \in Threads : w.thr[t].pc = "l_issue" }

Admitted(w, p, req) ==
  CASE req.op = "create" ->
         /\ Cardinality(LiveObjs(w)) + Cardinality(CreatesInFlight(w))
              < p.maxObjs
         /\ \A id \in Ids(UserNotes(w, req.tok.sub)) : id < p.maxNoteId
    [] req.op \in {"token", "login"} ->
         /\ Cardinality(w.tokens) + Cardinality(LoginsInFlight(w))
              < p.maxTokens
         /\ p.relogin \/ \A k \in w.tokens : k.sub # Normalize(req.raw)
    [] OTHER -> TRUE

\* ----------------------------------------------------------------- actions
Install(w) ==
  /\ users_db' = w.users_db
  /\ notes_db' = w.notes_db
  /\ lists' = w.lists
  /\ objs' = w.objs
  /\ thr' = w.thr
  /\ now' = w.now
  /\ tokens' = w.tokens

Init ==
  /\ users_db = << >>
  /\ notes_db = << >>
  /\ lists = [l \in ListIds |-> <<>>]
  /\ objs = [o \in ObjIds |-> FreeObj]
  /\ thr = [t \in Threads |-> IdleThread]
  /\ now = 0
  /\ tokens = {}

\* History, not program state: thr[t].ov holds the threads whose present
\* request has been in flight at the same time as thread t's.
MarkOverlap(w, t) ==
  [w EXCEPT !.thr =
     [u \in Threads |->
        IF u = t
        THEN [w.thr[t] EXCEPT
                !.ov = { x \in Threads \ {t} : Running(w.thr[x]) }]
        ELSE IF Running(w.thr[u])
        THEN [w.thr[u] EXCEPT !.ov = @ \cup {t}]
        ELSE w.thr[u]]]

\* The world w is the next state.
Becomes(w) == \E x \in {w} : Install(x)

\* Request req arrives at idle thread t: its dependencies and its validators
\* run, and the handler is ready to run on that thread.
Arrive(t, p, req) ==
  /\ Admitted(World, p, req)
  /\ Becomes(MarkOverlap(Collect(BeginFn(World, t, req)), t))

Idle(t) == thr[t].pc = "idle"

signup_arrives(t, p) ==
  /\ Idle(t)
  /\ \E req \in SignupReqs(World, p) : Arrive(t, p, req)

login_arrives(t, p) ==
  /\ Idle(t)
  /\ \E req \in LoginReqs(World, p, "token") : Arrive(t, p, req)

login_json_arrives(t, p) ==
  /\ Idle(t)
  /\ \E req \in LoginReqs(World, p, "login") : Arrive(t, p, req)

get_all_notes_arrives(t, p) ==
  /\ Idle(t)
  /\ \E req \in PlainReqs(World, p, "list") : Arrive(t, p, req)

create_note_arrives(t, p) ==
  /\ Idle(t)
  /\ \E req \in CreateReqs(World, p) : Arrive(t, p, req)

get_note_arrives(t, p) ==
  /\ Idle(t)
  /\ \E req \in ByIdReqs(World, p, "get") : Arrive(t, p, req)

update_note_arrives(t, p) ==
  /\ Idle(t)
  /\ \E req \in UpdateReqs(World, p) : Arrive(t, p, req)

delete_note_arrives(t, p) ==
  /\ Idle(t)
  /\ \E req \in ByIdReqs(World, p, "delete") : Arrive(t, p, req)

read_users_me_arrives(t, p) ==
  /\ Idle(t)
  /\ \E req \in PlainReqs(World, p, "me") : Arrive(t, p, req)

\* The steps of the handlers, each run by the thread that is at it.
signup_write_user(t) ==
  /\ thr[t].pc = "s_write_user"
  /\ Becomes(Collect(SignupWriteUser(World, t)))

signup_init_notes(t) ==
  /\ thr[t].pc = "s_init_notes"
  /\ Becomes(Collect(SignupInitNotes(World, t)))

login_issue(t) ==
  /\ thr[t].pc = "l_issue"
  /\ Becomes(Collect(LoginIssue(World, t)))

get_all_notes_run(t) ==
  /\ thr[t].pc = "g_all"
  /\ Becomes(Collect(GetAllNotes(World, t)))

get_note_run(t) ==
  /\ thr[t].pc = "g_one"
  /\ Becomes(Collect(GetNote(World, t)))

create_note_read(t) ==
  /\ thr[t].pc = "c_read"
  /\ Becomes(Collect(CreateRead(World, t)))

create_note_compute(t) ==
  /\ thr[t].pc = "c_comp"
  /\ Becomes(Collect(CreateCompute(World, t)))

create_note_append(t) ==
  /\ thr[t].pc = "c_append"
  /\ Becomes(Collect(CreateAppend(World, t)))

create_note_store(t) ==
  /\ thr[t].pc = "c_store"
  /\ Becomes(Collect(CreateStore(World, t)))

update_note_find(t) ==
  /\ thr[t].pc = "u_find"
  /\ Becomes(Collect(UpdateFind(World, t)))

update_note_mutate(t) ==
  /\ thr[t].pc = "u_mut"
  /\ Becomes(Collect(UpdateMutate(World, t)))

update_note_store(t) ==
  /\ thr[t].pc = "u_store"
  /\ Becomes(Collect(UpdateStore(World, t)))

delete_note_read(t) ==
  /\ thr[t].pc = "d_read"
  /\ Becomes(Collect(DeleteRead(World, t)))

delete_note_filter(t) ==
  /\ thr[t].pc = "d_filter"
  /\ Becomes(Collect(DeleteFilter(World, t)))

delete_note_check(t) ==
  /\ thr[t].pc = "d_check"
  /\ Becomes(Collect(DeleteCheck(World, t)))

\* The response of thread t is sent; the thread is free again.
Reply(t) ==
  /\ thr[t].pc = "done"
  /\ Install([World EXCEPT !.thr =
                [u \in Threads |->
                   IF u = t THEN IdleThread
                   ELSE [thr[u] EXCEPT !.ov = @ \ {t}]]])

\* Time passes.
Tick(p) ==
  /\ \E x \in p.instants : x > now /\ now' = x
  /\ UNCHANGED <<users_db, notes_db, lists, objs, thr, tokens>>

\* The thread that serves when requests are served one at a time.
Worker == SetMin(Threads)

Quiet == \A u \in Threads : thr[u].pc = "idle"

\* Request req is served from arrival to response with no other request in
\* between.
Serve(p, req) ==
  /\ Admitted(World, p, req)
  /\ \E w \in {Collect(BeginFn(World, Worker, req))} :
       Becomes(RunToDone(w, Worker))

\* The endpoints, each as one action.
signup(p) ==
  /\ Quiet
  /\ \E req \in SignupReqs(World, p) : Serve(p, req)

login(p) ==
  /\ Quiet
  /\ \E req \in LoginReqs(World, p, "token") : Serve(p, req)

login_json(p) ==
  /\ Quiet
  /\ \E req \in LoginReqs(World, p, "login") : Serve(p, req)

get_all_notes(p) ==
  /\ Quiet
  /\ \E req \in PlainReqs(World, p, "list") : Serve(p, req)

create_note(p) ==
  /\ Quiet
  /\ \E req \in CreateReqs(World, p) : Serve(p, req)

get_note(p) ==
  /\ Quiet
  /\ \E req \in ByIdReqs(World, p, "get") : Serve(p, req)

update_note(p) ==
  /\ Quiet
  /\ \E req \in UpdateReqs(World, p) : Serve(p, req)

delete_note(p) ==
  /\ Quiet
  /\ \E req \in ByIdReqs(World, p, "delete") : Serve(p, req)

read_users_me(p) ==
  /\ Quiet
  /\ \E req \in PlainReqs(World, p, "me") : Serve(p, req)

\* create_access_token called on its own, for a registered user, with or
\* without expires_delta.
issue(p) ==
  /\ Quiet
  /\ Cardinality(tokens) < p.maxTokens
  /\ \E sub \in DOMAIN users_db, m \in TtlArgs :
       \E k \in {create_access_token(sub, m, now)} :
         Becomes([World EXCEPT
                    !.tokens = @ \cup {k},
                    !.thr[Worker] =
                      Done([IdleThread EXCEPT !.op = "issue", !.user = sub,
                                              !.minutes = m],
                           [NoResp EXCEPT !.status = 200, !.token = k])])

Endpoints(p) ==
  \/ signup(p)
  \/ login(p)
  \/ login_json(p)
  \/ get_all_notes(p)
  \/ create_note(p)
  \/ get_note(p)
  \/ update_note(p)
  \/ delete_note(p)
  \/ read_users_me(p)

Arrivals(t, p) ==
  \/ signup_arrives(t, p)
  \/ login_arrives(t, p)
  \/ login_json_arrives(t, p)
  \/ get_all_notes_arrives(t, p)
  \/ create_note_arrives(t, p)
  \/ get_note_arrives(t, p)
  \/ update_note_arrives(t, p)
  \/ delete_note_arrives(t, p)
  \/ read_users_me_arrives(t, p)

Steps(t) ==
  \/ signup_write_user(t)
  \/ signup_init_notes(t)
  \/ login_issue(t)
  \/ get_all_notes_run(t)
  \/ get_note_run(t)
  \/ create_note_read(t)
  \/ create_note_compute(t)
  \/ create_note_append(t)
  \/ create_note_store(t)
  \/ update_note_find(t)
  \/ update_note_mutate(t)
  \/ update_note_store(t)
  \/ delete_note_read(t)
  \/ delete_note_filter(t)
  \/ delete_note_check(t)

Next ==
  \/ \E t \in Threads : Arrivals(t, ConcProfile)
  \/ \E t \in Threads : Steps(t)
  \/ \E t \in Threads : Reply(t)
  \/ Tick(ConcProfile)

SeqNext == Endpoints(NotesProfile) \/ Reply(Worker) \/ Tick(NotesProfile)

AuthNext == Endpoints(AuthProfile) \/ Reply(Worker) \/ Tick(AuthProfile)

TokenNext ==
  \/ signup(TokenProfile)
  \/ issue(TokenProfile)
  \/ read_users_me(TokenProfile)
  \/ Reply(Worker)
  \/ Tick(TokenProfile)

\* Requests served concurrently, interleaved at their steps.
Spec == Init /\ [][Next]_vars

\* Requests served one at a time: the notes scenario.
SeqSpec == Init /\ [][SeqNext]_vars

\* Requests served one at a time: the accounts-and-tokens scenario.
AuthSpec == Init /\ [][AuthNext]_vars

\* The token service called on its own, and its tokens presented on /me.
TokenSpec == Init /\ [][TokenNext]_vars

\* ================================================================== claims
\* The state after a step, as a world.
Post ==
  [users_db |-> users_db', notes_db |-> notes_db', lists |-> lists',
   objs |-> objs', thr |-> thr', now |-> now', tokens |-> tokens']

\* The step serves one request whose operation is in ops, from its arrival
\* to its response (thr'[Worker] holds the request and the response).
Served(ops) ==
  /\ Quiet
  /\ thr'[Worker].pc = "done"
  /\ thr'[Worker].op \in ops

\* The notes of every registered user, as values.
AllNotes(w) == [u \in DOMAIN w.users_db |-> UserNotes(w, u)]

\* ---------------------------------------------------------------------- C1
C1_Step ==
  Served(NoteOps) /\ thr'[Worker].tok \in tokens =>
    LET A == thr'[Worker].tok.sub IN
    /\ \A B \in DOMAIN users_db \ {A} :
         UserNotes(Post, B) = UserNotes(World, B)
    /\ Range(thr'[Worker].resp.notes) \subseteq Range(UserNotes(Post, A))

\* C1: owner isolation.  A list, get, create, update or delete call made
\* with a token issued for user A leaves the note list of every other
\* registered user B as it was, and every note it returns is a note of A's
\* own list, whatever note id A passes.
C1_OwnerIsolation == [][C1_Step]_vars

\* A has updated its note with an id that B also holds, and B's note with
\* that id is another note.
C1_Witness ==
  LET th == thr[Worker] IN
  /\ th.pc = "done" /\ th.op = "update" /\ th.resp.status = 200
  /\ \E B \in DOMAIN users_db \ {th.tok.sub} :
       \E i \in 1..Len(UserNotes(World, B)) :
         /\ UserNotes(World, B)[i].id = th.nid
         /\ UserNotes(World, B)[i] # th.resp.notes[1]

\* ---------------------------------------------------------------------- C2
C2_Step ==
  Served({"create"}) /\ thr'[Worker].resp.status = 200 =>
    LET U == thr'[Worker].tok.sub
        pre == UserNotes(World, U)
        n == thr'[Worker].resp.notes[1]
    IN /\ n.id = IF pre = <<>> THEN 1 ELSE SetMax(Ids(pre)) + 1
       /\ UserNotes(Post, U) = Append(pre, n)

\* C2: id assignment.  Every create_note for owner U returns a note whose
\* id is the largest id in U's list plus one, or 1 when the list is empty,
\* and appends that note to U's list; the ids of other users play no part.
C2_IdAssignment == [][C2_Step]_vars

\* A create has returned id 3 to an owner whose list then holds the ids 2
\* and 3: id 1 was deleted and has not been assigned again.
C2_Witness ==
  LET th == thr[Worker] IN
  /\ th.pc = "done" /\ th.op = "create" /\ th.resp.status = 200
  /\ th.resp.notes[1].id = 3
  /\ [i \in 1..Len(UserNotes(World, th.tok.sub)) |->
        UserNotes(World, th.tok.sub)[i].id] = <<2, 3>>

\* --------------------------------------------------------- C3, C4 and C6
\* Threads t and u have both answered, and their requests were in flight at
\* the same time.
BothDone(t, u) ==
  /\ t # u
  /\ thr[t].pc = "done"
  /\ thr[u].pc = "done"
  /\ u \in thr[t].ov

Success(t) == thr[t].resp.status = 200

Distinct(ns) == Cardinality(Ids(ns)) = Len(ns)

\* C3: no duplicate ids under concurrent inserts.  When two create_note
\* requests of one owner have run interleaved and both have answered, both
\* created notes are in the owner's list and no two notes of the list share
\* an id.
C3_NoDuplicateIds ==
  \A t, u \in Threads :
    ( /\ BothDone(t, u)
      /\ thr[t].op = "create" /\ Success(t)
      /\ thr[u].op = "create" /\ Success(u)
      /\ thr[t].user = thr[u].user ) =>
      LET ns == UserNotes(World, thr[t].user) IN
      /\ thr[t].resp.notes[1] \in Range(ns)
      /\ thr[u].resp.notes[1] \in Range(ns)
      /\ Distinct(ns)

\* The note that thread t's create or update has returned.
Written(t) == thr[t].resp.notes[1]

\* C4: no lost updates between writers on one owner's notes.  When a
\* delete_note(k) and a create_note (or an update_note of another id) of one
\* owner have run interleaved and both have answered, the owner's list holds
\* the created (or updated) note and does not hold note k.
C4_NoLostUpdates ==
  \A t, u \in Threads :
    ( /\ BothDone(t, u)
      /\ thr[t].op = "delete" /\ Success(t)
      /\ thr[u].op \in {"create", "update"} /\ Success(u)
      /\ Written(u).id # thr[t].nid
      /\ thr[t].user = thr[u].user ) =>
      LET ns == UserNotes(World, thr[t].user) IN
      /\ thr[t].nid \notin Ids(ns)
      /\ Written(u) \in Range(ns)

\* C6: atomic registration.  When two signup requests for one normalized
\* username have run interleaved and both have answered, exactly one of them
\* has succeeded, the other has failed with 400, and the stored password
\* hash is the one computed by the request that succeeded.
C6_AtomicRegistration ==
  \A t, u \in Threads :
    ( /\ BothDone(t, u)
      /\ thr[t].op = "signup" /\ thr[u].op = "signup"
      /\ thr[t].user = thr[u].user
      /\ Success(u) ) =>
      /\ thr[t].resp.status = 400
      /\ users_db[thr[u].user].hashed_password
           = get_password_hash(thr[u].pw, u)

\* ---------------------------------------------------------------------- C8
C8_Step ==
  Served({"update"}) /\ thr'[Worker].resp.status = 200 =>
    LET th == thr'[Worker]
        U == th.tok.sub
        pre == UserNotes(World, U)
        post == UserNotes(Post, U)
        hits == { i \in 1..Len(pre) : pre[i].id = th.nid }
    IN /\ Cardinality(hits) = 1
       /\ Len(post) = Len(pre)
       /\ \A i \in 1..Len(pre) :
            IF i \in hits
            THEN /\ post[i] = [pre[i] EXCEPT !.title = th.title,
                                             !.content = th.content,
                                             !.updated_at = now]
                 /\ post[i].id = pre[i].id
                 /\ post[i].created_at = pre[i].created_at
                 /\ th.resp.notes = <<post[i]>>
            ELSE post[i] = pre[i]
       /\ \A B \in DOMAIN users_db \ {U} :
            UserNotes(Post, B) = UserNotes(World, B)
       /\ users_db' = users_db

\* C8: update frame.  A successful update_note(id) replaces the title, the
\* content and updated_at of exactly the owner's note with that id; the
\* note's id, created_at and position in the list, every other note of the
\* owner and of every other user, and users_db are unchanged.
C8_UpdateFrame == [][C8_Step]_vars

\* An update at time 1 of the second of two notes, created at time 0 under
\* another title.
C8_Witness ==
  LET th == thr[Worker]
      ns == UserNotes(World, th.tok.sub)
  IN /\ th.pc = "done" /\ th.op = "update" /\ th.resp.status = 200
     /\ Len(ns) = 2
     /\ ns[2].id = th.nid
     /\ ns[2].created_at = 0 /\ ns[2].updated_at = 1
     /\ ns[2].title # ns[1].title

\* ---------------------------------------------------------------------- C9
\* The request served is by user U, authenticated.
ServedFor(ops, U) ==
  /\ Served(ops)
  /\ thr'[Worker].user = U
  /\ U \in DOMAIN users_db

C9_Step ==
  \A U \in DOMAIN users_db :
    LET pre == UserNotes(World, U)
        post == UserNotes(Post, U)
        th == thr'[Worker]
    IN /\ ServedFor({"delete"}, U) /\ th.resp.status = 200 =>
            th.nid \notin Ids(post)
       /\ ServedFor({"get"}, U) /\ th.nid \notin Ids(pre) =>
            th.resp = NotFound
       /\ ~(ServedFor({"create"}, U) /\ th.resp.status = 200) =>
            Ids(post) \subseteq Ids(pre)
       /\ ServedFor({"delete"}, U) /\ th.nid \notin Ids(pre) =>
            /\ th.resp = NotFound
            /\ AllNotes(Post) = AllNotes(World)
            /\ users_db' = users_db

\* C9: delete semantics.  After a successful delete_note(id) the owner's
\* list holds no note with that id; no request other than a successful
\* create of the owner adds an id to the owner's list; get_note of an id
\* that is not in the owner's list answers 404 "Note not found"; and
\* delete_note of an id that is not in the owner's list answers 404 and
\* leaves the contents of notes_db and users_db unchanged.
C9_DeleteSemantics == [][C9_Step]_vars

\* get_note has answered 404 for an id below the owner's largest id: an id
\* that was assigned and then deleted.
C9_Witness ==
  LET th == thr[Worker]
      ns == UserNotes(World, th.user)
  IN /\ th.pc = "done" /\ th.op = "get" /\ th.resp = NotFound
     /\ ns # <<>>
     /\ th.nid < SetMax(Ids(ns))
     /\ th.nid \notin Ids(ns)

\* ---------------------------------------------------------- C5, C7 and C10
Bob == <<"b", "o", "b">>
Amy == <<"a", "m", "y">>

\* What each spelling of a username is once trimmed and lower-cased, written
\* out by hand.
Canonical ==
  (<<"b", "o", "b">> :> Bob) @@
  (<<" ", "B", "o", "b", "\t">> :> Bob) @@
  (<<"a", "m", "y">> :> Amy) @@
  (<<"A", "M", "Y", " ">> :> Amy) @@
  (<<" ", "a", "b", " ">> :> <<"a", "b">>) @@
  (Long51 :> Long51)

\* The spellings that are 3 to 50 characters long once trimmed, and the
\* passwords of at least 6 characters.
ValidSpellings == { r \in RawUsernames : Canonical[r] \in {Bob, Amy} }
StrongPasswords == Passwords \ { <<"a", "b", "c", "d", "e">> }

StoresUnchanged ==
  /\ users_db' = users_db
  /\ DOMAIN notes_db' = DOMAIN notes_db
  /\ AllNotes(Post) = AllNotes(World)

\* The signup served is for a name that is registered already, under this
\* or another spelling.
DuplicateSignup ==
  /\ Served({"signup"})
  /\ thr'[Worker].raw \in DOMAIN Canonical
  /\ Canonical[thr'[Worker].raw] \in DOMAIN users_db

C5_OriginalStep ==
  DuplicateSignup =>
    /\ thr'[Worker].resp.status = 400
    /\ StoresUnchanged

\* C5 as stated: a signup for a registered username, in any letter case and
\* surrounding whitespace, fails with HTTP 400 and leaves users_db and
\* notes_db as they were.
C5_Original == [][C5_OriginalStep]_vars

C5_Step ==
  DuplicateSignup =>
    /\ thr'[Worker].pw \in StrongPasswords =>
         thr'[Worker].resp = Resp(400, "Username already registered")
    /\ thr'[Worker].pw \notin StrongPasswords =>
         thr'[Worker].resp.status = 422
    /\ StoresUnchanged

\* C5, amended: a signup for a registered username, in any letter case and
\* surrounding whitespace, fails with HTTP 400 when its password has at least
\* 6 characters and with HTTP 422 when it is shorter; either way users_db
\* and notes_db are left as they were (same password hash, same notes).
C5_DuplicateSignup == [][C5_Step]_vars

\* A signup under another spelling and another password than the registered
\* ones has failed with 400, and the user holds a note.
C5_Witness ==
  LET th == thr[Worker] IN
  /\ th.pc = "done" /\ th.op = "signup" /\ th.resp.status = 400
  /\ th.raw # Canonical[th.raw]
  /\ Canonical[th.raw] \in DOMAIN users_db
  /\ users_db[Canonical[th.raw]].hashed_password.pw # th.pw
  /\ UserNotes(World, Canonical[th.raw]) # <<>>

C7_Step ==
  LET th == thr'[Worker]
      valid == th.raw \in ValidSpellings /\ th.pw \in StrongPasswords
  IN /\ Served({"signup"}) /\ valid =>
          /\ Canonical[th.raw] \in DOMAIN users_db'
          /\ th.resp.status = 200 <=> Canonical[th.raw] \notin DOMAIN users_db
          /\ th.resp.status = 200 =>
               verify_password(th.pw,
                               users_db'[Canonical[th.raw]].hashed_password)
     /\ ( /\ Served({"token", "login"}) /\ valid
          /\ Canonical[th.raw] \in DOMAIN users_db
          /\ users_db[Canonical[th.raw]].hashed_password.pw = th.pw ) =>
          /\ th.resp.status = 200
          /\ th.resp.token \in tokens'
          /\ th.resp.token.sub = Canonical[th.raw]
          /\ th.resp.token.exp > now
     /\ Served({"me"}) /\ th.tok \in tokens /\ now < th.tok.exp =>
          /\ th.resp.status = 200
          /\ th.resp.username = th.tok.sub
          /\ th.resp.username \in {Bob, Amy}
     /\ \A u \in DOMAIN users_db :
          u \in DOMAIN users_db' /\ users_db'[u] = users_db[u]

\* C7: signup/login round trip.  A signup with a valid (username, password)
\* pair registers the trimmed, lower-cased username with a hash of that
\* password (or finds it registered), and no request changes the record; a
\* login through /token or /login with the registered password and the
\* username in any letter case and surrounding whitespace returns a token
\* for the trimmed, lower-cased username; and get_current_user on an issued
\* token before it expires resolves to that username.
C7_RoundTrip == [][C7_Step]_vars

\* A login under another spelling than the registered username has returned
\* a token for the registered username.
C7_Witness ==
  LET th == thr[Worker] IN
  /\ th.pc = "done" /\ th.op \in {"token", "login"} /\ th.resp.status = 200
  /\ th.raw # Canonical[th.raw]
  /\ th.resp.token.sub = Canonical[th.raw]
  /\ th.resp.token \in tokens

C10_Step ==
  LET th == thr'[Worker] IN
  ( /\ Served(NoteOps \cup {"me"})
    /\ th.tok \in tokens
    /\ now >= th.tok.exp ) =>
    /\ th.resp = Unauthorized
    /\ StoresUnchanged

\* C10: expired tokens.  An issued token presented at or after its expiry
\* time on list, get, create, update, delete or /me is answered with HTTP
\* 401, whatever note id or payload comes with it, and the stores are
\* unchanged.
C10_ExpiredTokens == [][C10_Step]_vars

\* ---------------------------------------------------------------------- C11
C11_Step ==
  Served(NoteOps \cup {"me"}) =>
    LET th == thr'[Worker]
        k == th.tok
        verifies == k.sig = "ok" /\ now < k.exp /\ k.sub # NoName
        accepted == verifies /\ k.sub \in DOMAIN users_db
    IN /\ accepted <=> (th.user = k.sub /\ th.resp # Unauthorized)
       /\ ~accepted =>
            /\ th.resp = Unauthorized
            /\ th.user = NoName
            /\ StoresUnchanged

\* C11: auth gateway.  A request reaches a protected operation as the user
\* u exactly when its token has a valid signature, is not expired (the time
\* is before its exp), has a subject, and the subject u is a key of users_db;
\* every other request is answered with HTTP 401 "Could not validate
\* credentials", the same response whichever check failed, and changes
\* nothing.
C11_AuthGateway == [][C11_Step]_vars

\* ---------------------------------------------------------------------- C12
\* s is empty once trimmed.
Blank(s) == \A i \in 1..Len(s) : s[i] \in {" ", "\t"}

\* The world w with the note list of every user but A emptied.
Erased(w, A) ==
  Collect([w EXCEPT !.lists =
             [l \in ListIds |->
                IF \E B \in DOMAIN w.notes_db \ {A} : w.notes_db[B] = l
                THEN <<>> ELSE w.lists[l]]])

\* The response to request req in world w.
Answer(w, req) ==
  LET r == RunToDone(Collect(BeginFn(w, Worker, req)), Worker)
  IN r.thr[Worker].resp

\* A by-id request of an authenticated user for an id that is not in the
\* user's list has been served.
MissingIdServed ==
  /\ Served({"get", "update", "delete"})
  /\ thr'[Worker].tok \in tokens
  /\ thr'[Worker].nid \notin Ids(UserNotes(World, thr'[Worker].tok.sub))

C12_OriginalStep == MissingIdServed => thr'[Worker].resp = NotFound

\* C12 as stated: get_note, update_note and delete_note of an authenticated
\* user on an id that is not in the user's list answer NotFound.
C12_Original == [][C12_OriginalStep]_vars

C12_Step ==
  LET th == thr'[Worker]
      req == Request(th.op, <<>>, <<>>, th.tok, th.nid, th.title, th.content)
  IN /\ MissingIdServed =>
          IF th.op = "update" /\ (Blank(th.title) \/ Blank(th.content))
          THEN th.resp.status = 422
          ELSE th.resp = NotFound
     /\ Served({"get", "update", "delete"}) /\ th.tok \in tokens =>
          th.resp = Answer(Erased(World, th.tok.sub), req)

\* C12, amended: for an authenticated user A, get_note and delete_note on an
\* id that is not in A's list answer NotFound, and so does update_note
\* unless its title or content is empty once trimmed, which is answered
\* with a validation error; and every answer to get_note, update_note and
\* delete_note is the answer A would get if no other user held any note.
C12_NonDisclosure == [][C12_Step]_vars

\* A request for an id that another user holds and the caller does not has
\* been answered NotFound.
C12_Witness ==
  LET th == thr[Worker] IN
  /\ th.pc = "done" /\ th.op \in {"get", "update", "delete"}
  /\ th.resp = NotFound
  /\ th.nid \notin Ids(UserNotes(World, th.user))
  /\ \E B \in DOMAIN users_db \ {th.user} :
       th.nid \in Ids(UserNotes(World, B))

\* ---------------------------------------------------------------------- C13
\* The login request with these credentials through /token ("token") or
\* /login ("login").
LoginRequest(op, raw, pw) == Request(op, raw, pw, NoToken, 0, <<>>, <<>>)

SameOutcome(a, b) ==
  \/ a.status = 200 /\ b.status = 200 /\ a.token.sub = b.token.sub
  \/ a.status = 401 /\ b.status = 401

\* C13: equivalent login entry points.  In every state and for every
\* (username, password) input, /token and /login both return a token for
\* the same subject, or both return an authentication failure (HTTP 401).
C13_EquivalentLogins ==
  Quiet =>
    \A raw \in RawUsernames, pw \in Passwords :
      SameOutcome(Answer(World, LoginRequest("token", raw, pw)),
                  Answer(World, LoginRequest("login", raw, pw)))

\* ---------------------------------------------------------------------- C14
C14_Step ==
  LET th == thr'[Worker] IN
  /\ Served({"issue"}) =>
       th.resp.token.exp =
         now + 60 * (IF th.minutes = 0 THEN 60 ELSE th.minutes)
  /\ Served({"me"}) /\ th.tok \in tokens /\ now < th.tok.exp =>
       th.resp.status = 200 /\ th.resp.username = th.tok.sub
  /\ Served({"me"}) /\ th.tok \in tokens /\ now > th.tok.exp =>
       th.resp = Unauthorized

\* C14: token lifetime.  A token issued without an explicit ttl expires 60
\* minutes after it was issued, a token issued with an explicit ttl expires
\* exactly ttl after it was issued; a token is accepted at every time before
\* its expiry and rejected at every time after it.
C14_TokenLifetime == [][C14_Step]_vars

\* ---------------------------------------------------------------------- C15
\* s is non-empty and has no leading or trailing whitespace.
Tidy(s) ==
  /\ s # <<>>
  /\ s[1] \notin {" ", "\t"}
  /\ s[Len(s)] \notin {" ", "\t"}

C15_Step ==
  LET th == thr'[Worker] IN
  /\ \A u \in DOMAIN notes_db' :
       \A i \in 1..Len(UserNotes(Post, u)) :
         /\ Tidy(UserNotes(Post, u)[i].title)
         /\ Tidy(UserNotes(Post, u)[i].content)
  /\ ( /\ Served({"create", "update"})
       /\ th.tok \in tokens
       /\ Blank(th.title) \/ Blank(th.content) ) =>
       /\ th.resp.status = 422
       /\ DOMAIN notes_db' = DOMAIN notes_db
       /\ AllNotes(Post) = AllNotes(World)

\* C15: validation and trimming.  Every stored note has a title and a
\* content that are non-empty and carry no leading or trailing whitespace;
\* a create_note or update_note whose title or content is empty once
\* trimmed is answered with a validation error and leaves notes_db as it was.
C15_ValidationTrimming == [][C15_Step]_vars

\* A note sent with the title " a " and the content "x " has been created
\* and is stored as "a" and "x".
C15_Witness ==
  LET th == thr[Worker] IN
  /\ th.pc = "done" /\ th.op = "create" /\ th.resp.status = 200
  /\ th.resp.notes[1].title = <<"a">>
  /\ th.resp.notes[1].content = <<"x">>
  /\ th.resp.notes[1] \in Range(UserNotes(World, th.user))

\* ---------------------------------------------------------------------- C16
C16_Step ==
  \A u \in DOMAIN users_db :
    /\ u \in DOMAIN users_db'
    /\ users_db'[u] = users_db[u]

\* C16: user records are permanent and immutable.  Once a username is a key
\* of users_db with a password hash, no step of any operation, in any
\* interleaving, removes the key or replaces the hash.
C16_UsersPermanent == [][C16_Step]_vars

\* ---------------------------------------------------------------------- C17
\* C17: constant-shape login failure.  A login that fails with "Incorrect
\* username or password" has gone through one password-hash verification,
\* whether the username is unknown or the password is wrong.
C17_ConstantShape ==
  \A t \in Threads :
    ( /\ thr[t].pc = "done"
      /\ thr[t].op \in {"token", "login"}
      /\ thr[t].resp = Resp(401, "Incorrect username or password") ) =>
      thr[t].hashes = 1

\* ---------------------------------------------------------------------- C18
\* The step is a step of an update_note or delete_note request of user u.
OwnerChanges(u) ==
  \E t \in Threads :
    /\ thr[t].op \in {"update", "delete"}
    /\ thr[t].user = u
    /\ thr'[t].pc # thr[t].pc

C18_Step ==
  \A u \in DOMAIN notes_db :
    \A i \in 1..Len(UserNotes(World, u)) :
      \/ UserNotes(World, u)[i] \in Range(UserNotes(Post, u))
      \/ OwnerChanges(u)

\* C18: notes survive signup.  A note stored for owner u stays in u's list,
\* unchanged, through every step that is not a step of an update_note or
\* delete_note of u; in particular through every step of a signup for u's
\* username, however it ends and whatever runs at the same time.
C18_NotesSurviveSignup == [][C18_Step]_vars

\* ---------------------------------------------------------------------- C19
\* The ids of the notes of a list, in the order of the list.
IdSeq(ns) == [i \in 1..Len(ns) |-> ns[i].id]

Increasing(ns) ==
  \A i, j \in 1..Len(ns) : i < j => ns[i].id < ns[j].id

C19_Step ==
  LET th == thr'[Worker]
      pre == UserNotes(World, th.tok.sub)
      post == UserNotes(Post, th.tok.sub)
  IN /\ \A u \in DOMAIN notes_db' : Increasing(UserNotes(Post, u))
     /\ Served({"list"}) /\ th.tok \in tokens => th.resp.notes = pre
     /\ Served({"create"}) /\ th.resp.status = 200 =>
          IdSeq(post) = Append(IdSeq(pre), th.resp.notes[1].id)
     /\ Served({"update"}) /\ th.tok \in tokens => IdSeq(post) = IdSeq(pre)
     /\ Served({"delete"}) /\ th.tok \in tokens =>
          IdSeq(post) = SelectSeq(IdSeq(pre), LAMBDA x : x # th.nid)

\* C19: ordered list invariant.  With operations executed one at a time,
\* each owner's list is strictly increasing in id from first to last, a
\* created note goes to the end, get_all_notes returns the list in that
\* order, update_note keeps the order, and delete_note keeps the order of
\* the notes that remain.
C19_OrderedList == [][C19_Step]_vars

\* get_all_notes has returned two notes, the first of them updated after
\* the second was created, in the order of their ids.
C19_Witness ==
  LET th == thr[Worker] IN
  /\ th.pc = "done" /\ th.op = "list" /\ th.resp.status = 200
  /\ Len(th.resp.notes) = 2
  /\ th.resp.notes[1].id < th.resp.notes[2].id
  /\ th.resp.notes[1].updated_at > th.resp.notes[2].created_at

\* ---------------------------------------------------------------------- C20
\* C20: truthful delete outcome.  A delete_note that has answered reports
\* success exactly when its filter has removed a note with that id from the
\* owner's list, and NotFound exactly when it has removed none, whatever
\* create_note of the same owner ran in between.
C20_TruthfulDelete ==
  \A t \in Threads :
    ( /\ thr[t].pc = "done"
      /\ thr[t].op = "delete"
      /\ thr[t].user # NoName ) =>
      /\ Success(t) <=> thr[t].removed
      /\ thr[t].resp = NotFound <=> ~thr[t].removed

====
